---- MODULE Spec2Model ----
(***************************************************************************)
(* Ubon Computer Speccom V.3: the build state (base parts + add-ons), the  *)
(* attribute filters with Smart Sync, the compatibility checker and the   *)
(* quote of the summary.                                                   *)
(*                                                                         *)
(* JavaScript values are modelled as follows.  An optional value (an      *)
(* attribute or a filter field that may be undefined) is a sequence of     *)
(* length at most one: <<>> is undefined, <<v>> is the value v.  An array  *)
(* attribute that is present is <<list>>, so that a present empty array    *)
(* <<<<>>>> differs from undefined.                                        *)
(***************************************************************************)
EXTENDS Integers, Sequences, FiniteSets, TLC

VARIABLES inventory, build, filters, smartSync, call

vars == <<inventory, build, filters, smartSync, call>>

-----------------------------------------------------------------------------
(* Bounds of the model *)

MaxAddons == 2
MaxQty == 3

-----------------------------------------------------------------------------
(* JavaScript values *)

Undefined == <<>>
Some(v) == <<v>>

\* truthiness of an optional string ("" is falsy)
TruthyStr(m) == m # Undefined /\ m[1] # ""
\* truthiness of an optional number (0 is falsy)
TruthyNum(m) == m # Undefined /\ m[1] # 0
\* truthiness of an optional array (every array, the empty one too, is truthy)
TruthyArr(m) == m # Undefined
\* (m || 0) for an optional number
OrZero(m) == IF TruthyNum(m) THEN m[1] ELSE 0
\* (m || []) for an optional array
OrEmpty(m) == IF TruthyArr(m) THEN m[1] ELSE <<>>
\* arr.includes(m) for an optional scalar m (undefined is never an element here)
Includes(arr, m) == m # Undefined /\ \E i \in 1..Len(arr) : arr[i] = m[1]

Range(s) == {s[i] : i \in 1..Len(s)}

-----------------------------------------------------------------------------
(* Categories and products *)

BASE_CATEGORIES == <<"CPU", "Motherboard", "GPU", "RAM", "Storage", "PSU", "Case", "Cooler">>
ADDON_CATEGORIES == <<"Monitor", "Software", "SSD">>

NoAttributes ==
  [socket |-> Undefined, tdp |-> Undefined, ramType |-> Undefined,
   formFactor |-> Undefined, pcieSlots |-> Undefined, storage |-> Undefined,
   type |-> Undefined, interface |-> Undefined, wattage |-> Undefined,
   formFactorSupport |-> Undefined, socketSupport |-> Undefined]

Product(id, category, price, stock, cost, attrs) ==
  [id |-> id, category |-> category, price |-> price, stock |-> stock,
   cost |-> cost, attributes |-> attrs @@ NoAttributes]

\* an empty slot of build.base (parts[cat] is undefined)
NoPart == [id |-> "", category |-> "", price |-> 0, stock |-> 0,
           cost |-> Undefined, attributes |-> NoAttributes]

\* the inventory of the pure-function specifications: parts of DEMO_DATA
\* (cpu1, cpu2, mb1, mb2, gpu1, ram1, sto1, psu1, case1), and parts with
\* missing, emptied or zero attributes as the product editor saves them
Catalog ==
  << Product("cpu1", "CPU", 7490, 8, Some(6100), [socket |-> Some("AM5"), tdp |-> Some(65)]),
     Product("cpu2", "CPU", 6990, 12, Some(5900), [socket |-> Some("LGA1700"), tdp |-> Some(148)]),
     Product("cpu3", "CPU", 1000, 1, Undefined, [socket |-> Undefined]),
     Product("cpu4", "CPU", 1200, 1, Undefined, [socket |-> Some(""), tdp |-> Some(0)]),
     Product("mb1", "Motherboard", 7290, 6, Some(6100),
             [socket |-> Some("AM5"), ramType |-> Some("DDR5"), formFactor |-> Some("ATX"),
              pcieSlots |-> Some(2), storage |-> Some(<<"M.2 NVMe", "SATA">>)]),
     Product("mb2", "Motherboard", 4990, 9, Some(4100),
             [socket |-> Some("LGA1700"), ramType |-> Some("DDR5"), formFactor |-> Some("mATX"),
              pcieSlots |-> Some(2), storage |-> Some(<<"M.2 NVMe", "SATA">>)]),
     Product("mb3", "Motherboard", 2000, 2, Undefined,
             [socket |-> Some("LGA1700"), ramType |-> Some("DDR4"), formFactor |-> Some("ITX"),
              pcieSlots |-> Some(0), storage |-> Some(<<"SATA">>)]),
     Product("mb4", "Motherboard", 1500, 1, Undefined, [storage |-> Some(<<>>)]),
     Product("gpu1", "GPU", 19990, 4, Some(17500), [tdp |-> Some(220), interface |-> Some("PCIe")]),
     Product("gpu2", "GPU", 900, 1, Undefined, [tdp |-> Undefined]),
     Product("ram1", "RAM", 2190, 15, Some(1850), [type |-> Some("DDR5")]),
     Product("ram2", "RAM", 500, 1, Undefined, [type |-> Undefined]),
     Product("sto1", "Storage", 2990, 18, Some(2500), [interface |-> Some("M.2 NVMe")]),
     Product("sto2", "Storage", 700, 1, Undefined, [interface |-> Undefined]),
     Product("psu1", "PSU", 3290, 7, Some(2800), [wattage |-> Some(750)]),
     Product("psu2", "PSU", 990, 2, Some(800), [wattage |-> Some(300)]),
     Product("psu3", "PSU", 500, 1, Undefined, [wattage |-> Undefined]),
     Product("case1", "Case", 3290, 5, Some(2800), [formFactorSupport |-> Some(<<"ITX">>)]),
     Product("case2", "Case", 800, 1, Undefined, [formFactorSupport |-> Undefined]),
     Product("cool1", "Cooler", 1190, 9, Some(990), [socketSupport |-> Some(<<"AM5">>)]),
     Product("cool2", "Cooler", 400, 1, Undefined, [socketSupport |-> Undefined]) >>

\* the inventory of the application specification: a stored inventory with
\* a CPU, a motherboard of another socket and two add-on products, one of
\* them out of stock
StoredInventory ==
  << Catalog[1],
     Product("mb5", "Motherboard", 4990, 9, Some(4100),
             [socket |-> Some("LGA1700"), ramType |-> Some("DDR5"), pcieSlots |-> Some(2)]),
     Product("mon1", "Monitor", 4490, 10, Some(3800), [tdp |-> Undefined]),
     Product("ssd1", "SSD", 2390, 0, Undefined, [interface |-> Some("M.2 NVMe")]) >>

EmptyBase == [c \in Range(BASE_CATEGORIES) |-> NoPart]
EmptyBuild == [base |-> EmptyBase, addons |-> <<>>]
NoFilters == [socket |-> Undefined, ramType |-> Undefined, formFactor |-> Undefined,
              storageInterface |-> Undefined, minPSUWatt |-> Undefined,
              coolerSocket |-> Undefined]
NoCall == [op |-> "none", n |-> 0, arg |-> <<>>, ret |-> <<>>]

-----------------------------------------------------------------------------
(* Compatibility *)

Present(p) == p # NoPart

Headroom == 100

estimateWattage(parts) ==
  LET cpu == OrZero(parts["CPU"].attributes.tdp)
      gpu == OrZero(parts["GPU"].attributes.tdp)
  IN  cpu + gpu + Headroom

\* a note {level, msg}; msg is the message template and the values put in it
Note(level, text, vals) == [level |-> level, msg |-> [text |-> text, vals |-> vals]]

\* socketRule with a mismatch reported as a warning
socketRuleWarn(parts) ==
  LET cpu == parts["CPU"]  mb == parts["Motherboard"]
  IN  IF Present(cpu) /\ Present(mb)
      THEN << IF cpu.attributes.socket = mb.attributes.socket
              THEN Note("ok", "socket-match", <<>>)
              ELSE Note("warn", "socket-mismatch",
                        <<cpu.attributes.socket, mb.attributes.socket>>) >>
      ELSE <<>>

\* if (cpu && mb) notes.push(cpu.socket===mb.socket ? ok : error)
socketRule(parts) ==
  LET cpu == parts["CPU"]  mb == parts["Motherboard"]
  IN  IF Present(cpu) /\ Present(mb)
      THEN << IF cpu.attributes.socket = mb.attributes.socket
              THEN Note("ok", "socket-match", <<>>)
              ELSE Note("error", "socket-mismatch",
                        <<cpu.attributes.socket, mb.attributes.socket>>) >>
      ELSE <<>>

\* if (ram && mb) notes.push(ram.type===mb.ramType ? ok : error)
ramRule(parts) ==
  LET ram == parts["RAM"]  mb == parts["Motherboard"]
  IN  IF Present(ram) /\ Present(mb)
      THEN << IF ram.attributes.type = mb.attributes.ramType
              THEN Note("ok", "ram-match", <<>>)
              ELSE Note("error", "ram-mismatch",
                        <<ram.attributes.type, mb.attributes.ramType>>) >>
      ELSE <<>>

\* if (gpu && mb) notes.push(mb.pcieSlots ? ok : error)
pcieRule(parts) ==
  LET gpu == parts["GPU"]  mb == parts["Motherboard"]
  IN  IF Present(gpu) /\ Present(mb)
      THEN << IF TruthyNum(mb.attributes.pcieSlots)
              THEN Note("ok", "pcie-present", <<>>)
              ELSE Note("error", "pcie-missing", <<>>) >>
      ELSE <<>>

\* if (pcCase && mb) notes.push((case.formFactorSupport||[]).includes(mb.formFactor) ? ok : error)
caseRule(parts) ==
  LET pcCase == parts["Case"]  mb == parts["Motherboard"]
  IN  IF Present(pcCase) /\ Present(mb)
      THEN << IF Includes(OrEmpty(pcCase.attributes.formFactorSupport), mb.attributes.formFactor)
              THEN Note("ok", "case-match", <<>>)
              ELSE Note("error", "case-mismatch",
                        <<OrEmpty(pcCase.attributes.formFactorSupport), mb.attributes.formFactor>>) >>
      ELSE <<>>

\* coolerRule without the test that a CPU is chosen
coolerRuleNoCpuGuard(parts) ==
  LET cooler == parts["Cooler"]  cpu == parts["CPU"]
  IN  IF Present(cooler)
      THEN << IF Includes(OrEmpty(cooler.attributes.socketSupport), cpu.attributes.socket)
              THEN Note("ok", "cooler-match", <<>>)
              ELSE Note("error", "cooler-mismatch", <<cpu.attributes.socket>>) >>
      ELSE <<>>

\* if (cooler && cpu) notes.push((cooler.socketSupport||[]).includes(cpu.socket) ? ok : error)
coolerRule(parts) ==
  LET cooler == parts["Cooler"]  cpu == parts["CPU"]
  IN  IF Present(cooler) /\ Present(cpu)
      THEN << IF Includes(OrEmpty(cooler.attributes.socketSupport), cpu.attributes.socket)
              THEN Note("ok", "cooler-match", <<>>)
              ELSE Note("error", "cooler-mismatch", <<cpu.attributes.socket>>) >>
      ELSE <<>>

\* if (storage && mb) if (storage.interface && mb.storage) notes.push(includes ? ok : error)
\* storageRule reporting an error when an attribute is missing
storageRuleStrict(parts) ==
  LET storage == parts["Storage"]  mb == parts["Motherboard"]
  IN  IF Present(storage) /\ Present(mb)
      THEN << IF Includes(OrEmpty(mb.attributes.storage), storage.attributes.interface)
              THEN Note("ok", "storage-match", <<>>)
              ELSE Note("error", "storage-mismatch",
                        <<storage.attributes.interface, OrEmpty(mb.attributes.storage)>>) >>
      ELSE <<>>

storageRule(parts) ==
  LET storage == parts["Storage"]  mb == parts["Motherboard"]
  IN  IF Present(storage) /\ Present(mb)
         /\ TruthyStr(storage.attributes.interface) /\ TruthyArr(mb.attributes.storage)
      THEN << IF Includes(OrEmpty(mb.attributes.storage), storage.attributes.interface)
              THEN Note("ok", "storage-match", <<>>)
              ELSE Note("error", "storage-mismatch",
                        <<storage.attributes.interface, OrEmpty(mb.attributes.storage)>>) >>
      ELSE <<>>

\* psuRule with a weak PSU reported as an error
psuRuleError(parts) ==
  LET psu == parts["PSU"]
      need == estimateWattage(parts)
      has == OrZero(psu.attributes.wattage)
  IN  IF Present(psu)
      THEN << IF has < need
              THEN Note("error", "psu-low", <<has, need>>)
              ELSE Note("ok", "psu-enough", <<need>>) >>
      ELSE <<>>

\* if (psu) notes.push(has<need ? warn : ok)
psuRule(parts) ==
  LET psu == parts["PSU"]
      need == estimateWattage(parts)
      has == OrZero(psu.attributes.wattage)
  IN  IF Present(psu)
      THEN << IF has < need
              THEN Note("warn", "psu-low", <<has, need>>)
              ELSE Note("ok", "psu-enough", <<need>>) >>
      ELSE <<>>

\* overallLevel with the warn test before the error test
overallLevelWarnFirst(notes) ==
  IF \E i \in 1..Len(notes) : notes[i].level = "warn" THEN "warn"
  ELSE IF \E i \in 1..Len(notes) : notes[i].level = "error" THEN "error"
  ELSE "ok"

\* overallLevel that is ok only if some note is ok
overallLevelSomeOk(notes) ==
  IF \E i \in 1..Len(notes) : notes[i].level = "error" THEN "error"
  ELSE IF \E i \in 1..Len(notes) : notes[i].level = "ok"
          /\ ~\E j \in 1..Len(notes) : notes[j].level = "warn" THEN "ok"
  ELSE "warn"

\* const level = notes.some(error) ? "error" : notes.some(warn) ? "warn" : "ok"
overallLevel(notes) ==
  IF \E i \in 1..Len(notes) : notes[i].level = "error" THEN "error"
  ELSE IF \E i \in 1..Len(notes) : notes[i].level = "warn" THEN "warn"
  ELSE "ok"

\* checkCompatibility returning at the first rule that reports an error
checkCompatibilityShortCircuit(parts) ==
  LET rules == <<socketRule(parts), ramRule(parts), pcieRule(parts), caseRule(parts),
                 coolerRule(parts), storageRule(parts), psuRule(parts)>>
      Failed(k) == rules[k] # <<>> /\ rules[k][1].level = "error"
      Take(k) == IF \E j \in 1..(k - 1) : Failed(j) THEN <<>> ELSE rules[k]
      notes == Take(1) \o Take(2) \o Take(3) \o Take(4) \o Take(5) \o Take(6) \o Take(7)
  IN  [level |-> overallLevel(notes), notes |-> notes]

checkCompatibility(parts) ==
  LET notes == socketRule(parts) \o ramRule(parts) \o pcieRule(parts) \o caseRule(parts)
               \o coolerRule(parts) \o storageRule(parts) \o psuRule(parts)
  IN  [level |-> overallLevel(notes), notes |-> notes]

-----------------------------------------------------------------------------
(* Attribute filters *)

\* The lines of the filter callback: each is TRUE when its line returns false
\* for a candidate with attributes a (a = p.attributes || {}).

\* rejectsSocket comparing only a socket that the candidate has
rejectsSocketIfPresent(cat, a, f) ==
  /\ TruthyStr(f.socket)
  /\ cat \in {"CPU", "Motherboard"}
  /\ TruthyStr(a.socket) /\ a.socket # f.socket

\* if (f.socket && ((cat==="CPU" && a.socket!==f.socket) ||
\*                  (cat==="Motherboard" && a.socket!==f.socket))) return false
rejectsSocket(cat, a, f) ==
  /\ TruthyStr(f.socket)
  /\ \/ cat = "CPU" /\ a.socket # f.socket
     \/ cat = "Motherboard" /\ a.socket # f.socket

\* rejectsRamType with a line for the RAM category, on the module's type
rejectsRamTypeAlsoRam(cat, a, f) ==
  /\ TruthyStr(f.ramType)
  /\ \/ cat = "Motherboard" /\ a.ramType # f.ramType
     \/ cat = "RAM" /\ a.type # f.ramType

\* if (f.ramType && cat==="Motherboard" && a.ramType!==f.ramType) return false
rejectsRamType(cat, a, f) ==
  TruthyStr(f.ramType) /\ cat = "Motherboard" /\ a.ramType # f.ramType

\* if (f.formFactor && cat==="Motherboard" && a.formFactor!==f.formFactor) return false
rejectsFormFactor(cat, a, f) ==
  TruthyStr(f.formFactor) /\ cat = "Motherboard" /\ a.formFactor # f.formFactor

\* if (f.formFactor && cat==="Case"
\*     && !(a.formFactorSupport||[]).includes(f.formFactor)) return false
rejectsFormFactorSupport(cat, a, f) ==
  /\ TruthyStr(f.formFactor) /\ cat = "Case"
  /\ ~Includes(OrEmpty(a.formFactorSupport), f.formFactor)

\* if (f.storageInterface && cat==="Storage"
\*     && a.interface!==f.storageInterface) return false
rejectsInterface(cat, a, f) ==
  TruthyStr(f.storageInterface) /\ cat = "Storage" /\ a.interface # f.storageInterface

\* rejectsStorage looking at the board's first interface only
rejectsStorageFirstOnly(cat, a, f) ==
  /\ TruthyStr(f.storageInterface) /\ cat = "Motherboard"
  /\ ~(Len(OrEmpty(a.storage)) > 0 /\ Some(OrEmpty(a.storage)[1]) = f.storageInterface)

\* if (f.storageInterface && cat==="Motherboard"
\*     && !(a.storage||[]).includes(f.storageInterface)) return false
rejectsStorage(cat, a, f) ==
  /\ TruthyStr(f.storageInterface) /\ cat = "Motherboard"
  /\ ~Includes(OrEmpty(a.storage), f.storageInterface)

\* if (typeof f.minPSUWatt === "number" && cat==="PSU"
\*     && (a.wattage||0) < f.minPSUWatt) return false
rejectsWattage(cat, a, f) ==
  f.minPSUWatt # Undefined /\ cat = "PSU" /\ OrZero(a.wattage) < f.minPSUWatt[1]

\* rejectsSocketSupport passing a cooler that has no socketSupport list
rejectsSocketSupportIfListed(cat, a, f) ==
  /\ TruthyStr(f.coolerSocket) /\ cat = "Cooler"
  /\ TruthyArr(a.socketSupport)
  /\ ~Includes(OrEmpty(a.socketSupport), f.coolerSocket)

\* if (f.coolerSocket && cat==="Cooler"
\*     && !(a.socketSupport||[]).includes(f.coolerSocket)) return false
rejectsSocketSupport(cat, a, f) ==
  /\ TruthyStr(f.coolerSocket) /\ cat = "Cooler"
  /\ ~Includes(OrEmpty(a.socketSupport), f.coolerSocket)

\* if (!items.length) return items; return items.filter(p => ... return true)
applyAttrFilters(cat, items, f) ==
  LET Keep(p) ==
        LET a == p.attributes IN
        /\ ~rejectsSocket(cat, a, f)
        /\ ~rejectsRamType(cat, a, f)
        /\ ~rejectsFormFactor(cat, a, f)
        /\ ~rejectsFormFactorSupport(cat, a, f)
        /\ ~rejectsInterface(cat, a, f)
        /\ ~rejectsStorage(cat, a, f)
        /\ ~rejectsWattage(cat, a, f)
        /\ ~rejectsSocketSupport(cat, a, f)
  IN  IF Len(items) = 0 THEN items ELSE SelectSeq(items, Keep)

-----------------------------------------------------------------------------
(* Smart Sync *)

Max(a, b) == IF a >= b THEN a ELSE b

\* deriveSocket with the motherboard's socket taking precedence
deriveSocketMbFirst(base, current) ==
  LET cpu == base["CPU"]  mb == base["Motherboard"]
  IN  IF TruthyStr(mb.attributes.socket) THEN mb.attributes.socket
      ELSE IF TruthyStr(cpu.attributes.socket) THEN cpu.attributes.socket
      ELSE current.socket

\* deriveSocket with the toggle of the socket chips
deriveSocketToggle(base, current) ==
  LET cpu == base["CPU"]  mb == base["Motherboard"]
      s == IF TruthyStr(cpu.attributes.socket) THEN cpu.attributes.socket
           ELSE mb.attributes.socket
  IN  IF TruthyStr(s) THEN (IF current.socket = s THEN Undefined ELSE s)
      ELSE current.socket

\* if (cpu.socket) next.socket = cpu.socket;
\* if (!cpu.socket && mb.socket) next.socket = mb.socket
deriveSocket(base, current) ==
  LET cpu == base["CPU"]  mb == base["Motherboard"]
  IN  IF TruthyStr(cpu.attributes.socket) THEN cpu.attributes.socket
      ELSE IF TruthyStr(mb.attributes.socket) THEN mb.attributes.socket
      ELSE current.socket

\* deriveRamType without the test that the motherboard has a ramType
deriveRamTypeOverwrite(base, current) ==
  base["Motherboard"].attributes.ramType

\* if (mb.ramType) next.ramType = mb.ramType
deriveRamType(base, current) ==
  LET mb == base["Motherboard"]
  IN  IF TruthyStr(mb.attributes.ramType) THEN mb.attributes.ramType ELSE current.ramType

\* if (mb.formFactor) next.formFactor = mb.formFactor
deriveFormFactor(base, current) ==
  LET mb == base["Motherboard"]
  IN  IF TruthyStr(mb.attributes.formFactor) THEN mb.attributes.formFactor
      ELSE current.formFactor

\* if (storage.interface) next.storageInterface = storage.interface;
\* if (!storage.interface && Array.isArray(mb.storage) && mb.storage.length>0)
\*   next.storageInterface = mb.storage[0]
deriveStorageInterface(base, current) ==
  LET storage == base["Storage"]  mbStorage == base["Motherboard"].attributes.storage
  IN  IF TruthyStr(storage.attributes.interface) THEN storage.attributes.interface
      ELSE IF mbStorage # Undefined /\ Len(mbStorage[1]) > 0 THEN Some(mbStorage[1][1])
      ELSE current.storageInterface

\* if (cpu.socket) next.coolerSocket = cpu.socket
deriveCoolerSocket(base, current) ==
  LET cpu == base["CPU"]
  IN  IF TruthyStr(cpu.attributes.socket) THEN cpu.attributes.socket
      ELSE current.coolerSocket

\* deriveMinPSUWatt only for a PSU that has a wattage
deriveMinPSUWattRated(base, current) ==
  IF TruthyNum(base["PSU"].attributes.wattage) THEN Some(Max(estimateWattage(base), 0))
  ELSE current.minPSUWatt

\* if (psu) next.minPSUWatt = Math.max(estimateWattage(base), 0)
deriveMinPSUWatt(base, current) ==
  IF Present(base["PSU"]) THEN Some(Max(estimateWattage(base), 0))
  ELSE current.minPSUWatt

\* const next = {...current}; the assignments above; return next
deriveFiltersFromSelection(base, current) ==
  [socket |-> deriveSocket(base, current),
   ramType |-> deriveRamType(base, current),
   formFactor |-> deriveFormFactor(base, current),
   storageInterface |-> deriveStorageInterface(base, current),
   minPSUWatt |-> deriveMinPSUWatt(base, current),
   coolerSocket |-> deriveCoolerSocket(base, current)]

-----------------------------------------------------------------------------
(* Summary: the quote.  Prices, costs and percentages are whole numbers; the *)
(* JavaScript divisions by 100 are kept exact by the unit of each amount:    *)
(* subtotal and costTotal are in baht, discount, netBeforeVAT and profit in  *)
(* hundredths of a baht, vat and total in ten-thousandths of a baht, and     *)
(* margin is the fraction num/den, in percent.                               *)

Min(a, b) == IF a <= b THEN a ELSE b

\* BASE_CATEGORIES.map(c => build.base[c] ? {c, p} : null).filter(Boolean)
baseSelected(base) ==
  LET Chosen(c) == Present(base[c])
  IN  [i \in 1..Len(SelectSeq(BASE_CATEGORIES, Chosen)) |->
         base[SelectSeq(BASE_CATEGORIES, Chosen)[i]]]

\* baseSelected.reduce((s, {p}) => s + p.price, 0)
RECURSIVE baseTotal(_)
baseTotal(selected) ==
  IF Len(selected) = 0 THEN 0
  ELSE baseTotal(SubSeq(selected, 1, Len(selected) - 1)) + selected[Len(selected)].price

\* build.addons.reduce((s, a) => s + a.product.price * a.qty, 0)
RECURSIVE addonTotal(_)
addonTotal(addons) ==
  IF Len(addons) = 0 THEN 0
  ELSE addonTotal(SubSeq(addons, 1, Len(addons) - 1))
       + addons[Len(addons)].product.price * addons[Len(addons)].qty

\* missingRequired listing the missing categories in the order of BASE_CATEGORIES
missingRequiredInCategoryOrder(required, base) ==
  LET Missing(c) == c \in Range(required) /\ ~Present(base[c])
  IN  SelectSeq(BASE_CATEGORIES, Missing)

\* required.filter(c => !build.base[c])
missingRequired(required, base) ==
  LET Missing(c) == ~Present(base[c])
  IN  SelectSeq(required, Missing)

\* discount without Math.min(subtotal, ...)
discountUncapped(pricing, subtotal) ==
  IF pricing.discountType = "percent" THEN subtotal * pricing.discountValue
  ELSE IF pricing.discountType = "fixed" THEN pricing.discountValue * 100
  ELSE 0

\* percent: Math.min(subtotal, subtotal * (discountValue||0) / 100);
\* fixed: Math.min(subtotal, (discountValue||0)); otherwise 0  (in 1/100 baht)
discount(pricing, subtotal) ==
  IF pricing.discountType = "percent"
  THEN Min(subtotal * 100, subtotal * pricing.discountValue)
  ELSE IF pricing.discountType = "fixed"
  THEN Min(subtotal * 100, pricing.discountValue * 100)
  ELSE 0

\* Math.max(0, subtotal - discount)  (in 1/100 baht)
netBeforeVAT(subtotal, disc) == Max(0, subtotal * 100 - disc)

\* vat taken on the subtotal, before the discount
vatOnSubtotal(pricing, subtotal, net) ==
  IF pricing.vatEnabled THEN subtotal * 100 * pricing.vatPercent ELSE 0

\* pricing.vatEnabled ? netBeforeVAT * (vatPercent||0) / 100 : 0  (in 1/10000 baht)
vat(pricing, subtotal, net) ==
  IF pricing.vatEnabled THEN net * pricing.vatPercent ELSE 0

\* netBeforeVAT + vat  (in 1/10000 baht)
total(net, tax) == net * 100 + tax

\* baseSelected.reduce((s, {p}) => s + (typeof p.cost === "number" ? p.cost : 0), 0)
RECURSIVE baseCost(_)
baseCost(selected) ==
  IF Len(selected) = 0 THEN 0
  ELSE baseCost(SubSeq(selected, 1, Len(selected) - 1))
       + (IF selected[Len(selected)].cost # Undefined THEN selected[Len(selected)].cost[1] ELSE 0)

\* build.addons.reduce((s, a) =>
\*   s + (typeof a.product.cost === "number" ? a.product.cost * a.qty : 0), 0)
RECURSIVE addonCost(_)
addonCost(addons) ==
  IF Len(addons) = 0 THEN 0
  ELSE addonCost(SubSeq(addons, 1, Len(addons) - 1))
       + (IF addons[Len(addons)].product.cost # Undefined
          THEN addons[Len(addons)].product.cost[1] * addons[Len(addons)].qty ELSE 0)

\* netBeforeVAT - costTotal  (in 1/100 baht)
profit(net, costTotal) == net - costTotal * 100

\* margin without the test netBeforeVAT > 0
marginUnguarded(gain, net) == [num |-> gain * 100, den |-> net]

\* netBeforeVAT > 0 ? (profit / netBeforeVAT) * 100 : 0
margin(gain, net) ==
  IF net > 0 THEN [num |-> gain * 100, den |-> net] ELSE [num |-> 0, den |-> 1]

\* the figures that Summary computes from its props
Summary(b, pricing, required) ==
  LET subtotal == baseTotal(baseSelected(b.base)) + addonTotal(b.addons)
      disc == discount(pricing, subtotal)
      net == netBeforeVAT(subtotal, disc)
      tax == vat(pricing, subtotal, net)
      costTotal == baseCost(baseSelected(b.base)) + addonCost(b.addons)
      gain == profit(net, costTotal)
  IN  [subtotal |-> subtotal,
       missingRequired |-> missingRequired(required, b.base),
       discount |-> disc,
       netBeforeVAT |-> net,
       vat |-> tax,
       total |-> total(net, tax),
       costTotal |-> costTotal,
       profit |-> gain,
       margin |-> margin(gain, net)]

-----------------------------------------------------------------------------
(* The application: state after construction *)

Init ==
  /\ inventory = StoredInventory
  /\ build = EmptyBuild
  /\ filters = NoFilters
  /\ smartSync = TRUE
  /\ call = NoCall

\* SmartSyncEffect deriving from an empty FilterSet, as "sync now" does
SmartSyncEffectFromEmpty(sync, base, f) ==
  IF ~sync THEN f ELSE deriveFiltersFromSelection(base, NoFilters)

\* useEffect(..., [build.base, smartSync]): runs after a render in which
\* build.base is a new object or smartSync changed
SmartSyncEffect(sync, base, f) ==
  IF ~sync THEN f ELSE deriveFiltersFromSelection(base, f)

\* An add-on entry {id: uid(), product, qty} is modelled as [product, qty]:
\* uid() gives every entry an id of its own, so an entry's id names its
\* position in the list, and the handlers that take an id take a position.
AddonEntry(product, qty) == [product |-> product, qty |-> qty]

\* InStock without the test of the category
InStockAnyCategory(cat) ==
  LET Keep(p) == p.stock > 0
  IN  SelectSeq(inventory, Keep)

\* BasePicker.byCatRaw / AddonsPicker.byCat: the parts of a category in stock
InStock(cat) ==
  LET Keep(p) == p.category = cat /\ p.stock > 0
  IN  SelectSeq(inventory, Keep)

\* BasePicker.byCat
byCat(cat) == applyAttrFilters(cat, InStock(cat), filters)

setBase(base) ==
  /\ build' = [build EXCEPT !.base = base]
  /\ filters' = SmartSyncEffect(smartSync, base, filters)
  /\ UNCHANGED <<inventory, smartSync, call>>

\* selectBase(cat, product)
selectBase(cat, product) ==
  setBase([build.base EXCEPT ![cat] = product])

\* the picker's Select: an offered part of the category
PickBase ==
  \E cat \in Range(BASE_CATEGORIES) : \E item \in Range(byCat(cat)) :
    selectBase(cat, item)

\* SkipBase refusing to empty the slot of a required category
SkipBaseUnlessRequired ==
  \E cat \in Range(BASE_CATEGORIES) \ {"CPU", "Motherboard", "PSU"} :
    selectBase(cat, NoPart)

\* the picker's "none" item and its skip and remove buttons: onSelect(cat, null)
\* (for a required category a toast is shown after it, nothing else)
SkipBase ==
  \E cat \in Range(BASE_CATEGORIES) : selectBase(cat, NoPart)

\* addAddon taking the added quantity from the product's stock
addAddonFromStock(product, qty) ==
  LET prev == build.addons
      existing == \E i \in 1..Len(prev) : prev[i].product.id = product.id
  IN  /\ build' = [build EXCEPT !.addons =
                     IF existing
                     THEN [i \in 1..Len(prev) |->
                             IF prev[i].product.id = product.id
                             THEN [prev[i] EXCEPT !.qty = prev[i].qty + qty]
                             ELSE prev[i]]
                     ELSE Append(prev, AddonEntry(product, qty))]
      /\ inventory' = [i \in 1..Len(inventory) |->
                         IF inventory[i].id = product.id
                         THEN [inventory[i] EXCEPT !.stock = inventory[i].stock - qty]
                         ELSE inventory[i]]
      /\ UNCHANGED <<filters, smartSync, call>>

addAddon(product, qty) ==
  LET prev == build.addons
      existing == \E i \in 1..Len(prev) : prev[i].product.id = product.id
  IN  /\ build' = [build EXCEPT !.addons =
                     IF existing
                     THEN [i \in 1..Len(prev) |->
                             IF prev[i].product.id = product.id
                             THEN [prev[i] EXCEPT !.qty = prev[i].qty + qty]
                             ELSE prev[i]]
                     ELSE Append(prev, AddonEntry(product, qty))]
      /\ UNCHANGED <<inventory, filters, smartSync, call>>

\* AddonsPicker.add(cat, id, qty)
PickAddon ==
  \E cat \in Range(ADDON_CATEGORIES) : \E product \in Range(InStock(cat)) :
  \E qty \in 0..MaxQty :
    /\ qty >= 1
    /\ \A i \in 1..Len(build.addons) :
         build.addons[i].product.id = product.id => build.addons[i].qty + qty <= MaxQty
    /\ (\E i \in 1..Len(build.addons) : build.addons[i].product.id = product.id)
       \/ Len(build.addons) < MaxAddons
    /\ addAddon(product, qty)

updateAddonQty(id, qty) ==
  /\ build' = [build EXCEPT !.addons =
                 [i \in 1..Len(build.addons) |->
                    IF i = id
                    THEN [build.addons[i] EXCEPT !.qty = qty]
                    ELSE build.addons[i]]]
  /\ UNCHANGED <<inventory, filters, smartSync, call>>

\* EditAddonQty handing the typed number to updateQty as it is
EditAddonQtyUnclamped ==
  \E i \in 1..Len(build.addons) : \E typed \in 0..MaxQty :
    updateAddonQty(i, typed)

\* the quantity input of an entry: updateQty(a.id, Math.max(1, Number(value||1)))
\* (an emptied input counts as 1, a typed 0 is raised to 1)
EditAddonQty ==
  \E i \in 1..Len(build.addons) : \E typed \in 0..MaxQty :
    updateAddonQty(i, Max(1, typed))

removeAddon(id) ==
  /\ build' = [build EXCEPT !.addons =
                 [i \in 1..(Len(build.addons) - 1) |->
                    IF i < id THEN build.addons[i] ELSE build.addons[i + 1]]]
  /\ UNCHANGED <<inventory, filters, smartSync, call>>

RemoveAddon ==
  \E i \in 1..Len(build.addons) : removeAddon(i)

\* search dialog, a base part: base[p.category] = p
SearchInsertBase ==
  \E i \in 1..Len(inventory) :
    /\ inventory[i].category \in Range(BASE_CATEGORIES)
    /\ setBase([build.base EXCEPT ![inventory[i].category] = inventory[i]])

\* search dialog, an add-on part: addons = [...addons, {id: uid(), product: p, qty: 1}]
SearchAddOption ==
  \E i \in 1..Len(inventory) :
    /\ inventory[i].category \in Range(ADDON_CATEGORIES)
    /\ Len(build.addons) < MaxAddons
    /\ build' = [build EXCEPT !.addons =
                   Append(build.addons, AddonEntry(inventory[i], 1))]
    /\ UNCHANGED <<inventory, filters, smartSync, call>>

\* resetSpec emptying the FilterSet too
resetSpecClearFilters ==
  /\ build' = EmptyBuild
  /\ filters' = NoFilters
  /\ UNCHANGED <<inventory, smartSync, call>>

\* resetSpec emptying the base selection only
resetSpecKeepAddons ==
  /\ build' = [build EXCEPT !.base = EmptyBase]
  /\ filters' = SmartSyncEffect(smartSync, EmptyBase, filters)
  /\ UNCHANGED <<inventory, smartSync, call>>

\* setBuild({ base: {}, addons: [] }), then the Smart Sync effect
resetSpec ==
  /\ build' = EmptyBuild
  /\ filters' = SmartSyncEffect(smartSync, EmptyBase, filters)
  /\ UNCHANGED <<inventory, smartSync, call>>

\* the Smart Sync button: setSmartSync(!smartSync), then the effect
ToggleSmartSync ==
  /\ smartSync' = ~smartSync
  /\ filters' = SmartSyncEffect(~smartSync, build.base, filters)
  /\ UNCHANGED <<inventory, build, call>>

\* the "sync now" button: setFilters(deriveFiltersFromSelection(build.base, {}))
SyncNow ==
  /\ filters' = deriveFiltersFromSelection(build.base, NoFilters)
  /\ UNCHANGED <<inventory, build, smartSync, call>>

\* the per-field clear chips: setFilters({...filters, field: undefined}); so do
\* a click on the active chip of a field and the emptying of a field's input
ClearFilter ==
  \E k \in DOMAIN NoFilters :
    /\ filters[k] # Undefined
    /\ filters' = [filters EXCEPT ![k] = Undefined]
    /\ UNCHANGED <<inventory, build, smartSync, call>>

\* the "clear filters" button: setFilters({})
ClearFilters ==
  /\ filters' = NoFilters
  /\ UNCHANGED <<inventory, build, smartSync, call>>

Next ==
  \/ PickBase
  \/ SkipBase
  \/ PickAddon
  \/ EditAddonQty
  \/ RemoveAddon
  \/ SearchInsertBase
  \/ SearchAddOption
  \/ resetSpec
  \/ ToggleSmartSync
  \/ SyncNow
  \/ ClearFilter
  \/ ClearFilters

Spec == Init /\ [][Next]_vars

-----------------------------------------------------------------------------
(* checkCompatibility as a function of the base selection: every selection  *)
(* of the demo inventory (a part of its category or nothing per slot), as   *)
(* the search dialog can build it, and one call of the checker on it.       *)

Choices(cat) == {NoPart} \cup {p \in Range(Catalog) : p.category = cat}

Selections ==
  { [CPU |-> cpu, Motherboard |-> mb, GPU |-> gpu, RAM |-> ram,
     Storage |-> storage, PSU |-> psu, Case |-> pcCase, Cooler |-> cooler] :
      cpu \in Choices("CPU"), mb \in Choices("Motherboard"), gpu \in Choices("GPU"),
      ram \in Choices("RAM"), storage \in Choices("Storage"), psu \in Choices("PSU"),
      pcCase \in Choices("Case"), cooler \in Choices("Cooler") }

InitCheck ==
  /\ inventory = Catalog
  /\ build \in {[base |-> b, addons |-> <<>>] : b \in Selections}
  /\ filters = NoFilters
  /\ smartSync = TRUE
  /\ call = NoCall

\* BasePicker: comp = checkCompatibility(selection)
CallCheckCompatibility ==
  /\ call.op = "none"
  /\ call' = [op |-> "checkCompatibility", n |-> 1, arg |-> build.base,
              ret |-> checkCompatibility(build.base)]
  /\ UNCHANGED <<inventory, build, filters, smartSync>>

NextCheck == CallCheckCompatibility

SpecCheck == InitCheck /\ [][NextCheck]_vars

-----------------------------------------------------------------------------
(* deriveFiltersFromSelection as a function of the base selection and the   *)
(* previous FilterSet: the Smart Sync effect run on them, and run again on  *)
(* its own result with the selection unchanged.                             *)

MaxSyncRuns == 2

\* the selections that differ in a part deriveFiltersFromSelection reads
DeriveSelections ==
  { [EmptyBase EXCEPT !["CPU"] = cpu, !["Motherboard"] = mb, !["GPU"] = gpu,
                      !["Storage"] = storage, !["PSU"] = psu] :
      cpu \in Choices("CPU"), mb \in Choices("Motherboard"), gpu \in Choices("GPU"),
      storage \in Choices("Storage"), psu \in Choices("PSU") }

\* previous FilterSets: every field absent or set by hand to a value that no
\* part of the inventory gives
CurrentFilters ==
  { [socket |-> a, ramType |-> b, formFactor |-> c, storageInterface |-> d,
     minPSUWatt |-> e, coolerSocket |-> f] :
      a \in {Undefined, Some("AM4")}, b \in {Undefined, Some("DDR3")},
      c \in {Undefined, Some("EATX")}, d \in {Undefined, Some("IDE")},
      e \in {Undefined, Some(650)}, f \in {Undefined, Some("AM4")} }

InitDerive ==
  /\ inventory = Catalog
  /\ build \in {[base |-> b, addons |-> <<>>] : b \in DeriveSelections}
  /\ filters \in CurrentFilters
  /\ smartSync = TRUE
  /\ call = NoCall

\* the body of the Smart Sync effect:
\* next = deriveFiltersFromSelection(build.base, filters); setFilters(next)
RunSmartSync ==
  /\ smartSync
  /\ call.n < MaxSyncRuns
  /\ LET next == deriveFiltersFromSelection(build.base, filters)
     IN  /\ filters' = next
         /\ call' = [op |-> "deriveFiltersFromSelection", n |-> call.n + 1,
                     arg |-> <<build.base, filters>>, ret |-> next]
  /\ UNCHANGED <<inventory, build, smartSync>>

NextDerive == RunSmartSync

SpecDerive == InitDerive /\ [][NextDerive]_vars

-----------------------------------------------------------------------------
(* applyAttrFilters as a function of the category, the candidate list and   *)
(* the FilterSet, and the candidate lists that the two pickers offer under  *)
(* a FilterSet.                                                             *)

\* the inventory of this specification: the catalog, a DDR4 memory module, a
\* drive that is out of stock, and SSD add-on products
FilterCatalog ==
  Catalog \o
  << Product("ram3", "RAM", 1590, 10, Some(1300), [type |-> Some("DDR4")]),
     Product("sto3", "Storage", 1990, 0, Some(1600), [interface |-> Some("SATA")]),
     Product("ssd2", "SSD", 2390, 16, Some(1990), [interface |-> Some("M.2 NVMe")]),
     Product("ssd3", "SSD", 1290, 12, Some(990), [interface |-> Some("SATA")]),
     Product("ssd4", "SSD", 600, 1, Undefined, [interface |-> Undefined]) >>

\* FilterSets: every field absent or set to a value that parts of the
\* inventory have; minPSUWatt also 0, as the number input gives it
FilterSets ==
  { [socket |-> a, ramType |-> b, formFactor |-> c, storageInterface |-> d,
     minPSUWatt |-> e, coolerSocket |-> f] :
      a \in {Undefined, Some("AM5"), Some("LGA1700")},
      b \in {Undefined, Some("DDR5")},
      c \in {Undefined, Some("ATX"), Some("ITX")},
      d \in {Undefined, Some("M.2 NVMe"), Some("SATA")},
      e \in {Undefined, Some(0), Some(468)},
      f \in {Undefined, Some("AM5")} }

\* the sub-sequences of a list (its elements in their order, some left out)
RECURSIVE SubSeqs(_)
SubSeqs(s) ==
  IF Len(s) = 0 THEN {<<>>}
  ELSE LET rest == SubSeqs(Tail(s))
       IN  rest \cup {<<Head(s)>> \o t : t \in rest}

\* candidate lists of a category: the sub-sequences of its parts in the inventory
CandidateLists(cat) ==
  LET OfCat(p) == p.category = cat
  IN  SubSeqs(SelectSeq(inventory, OfCat))

InitFilter ==
  /\ inventory = FilterCatalog
  /\ build = EmptyBuild
  /\ filters \in FilterSets
  /\ smartSync = FALSE
  /\ call = NoCall

\* BasePicker.byCat: m[c] = applyAttrFilters(c, byCatRaw[c], filters)
CallApplyAttrFilters ==
  /\ call.op = "none"
  /\ \E cat \in Range(BASE_CATEGORIES) : \E items \in CandidateLists(cat) :
       call' = [op |-> "applyAttrFilters", n |-> 1, arg |-> <<cat, items, filters>>,
                ret |-> applyAttrFilters(cat, items, filters)]
  /\ UNCHANGED <<inventory, build, filters, smartSync>>

\* a render of BasePicker and AddonsPicker: the candidates offered per category
RenderPickers ==
  /\ call.op = "none"
  /\ call' = [op |-> "RenderPickers", n |-> 1, arg |-> filters,
              ret |-> [c \in Range(BASE_CATEGORIES) \cup Range(ADDON_CATEGORIES) |->
                         IF c \in Range(BASE_CATEGORIES) THEN byCat(c) ELSE InStock(c)]]
  /\ UNCHANGED <<inventory, build, filters, smartSync>>

NextFilter ==
  \/ CallApplyAttrFilters
  \/ RenderPickers

SpecFilter == InitFilter /\ [][NextFilter]_vars

-----------------------------------------------------------------------------
(* Summary as a function of the build, the pricing and the required list.   *)

\* the inventory of this specification: with a monitor and a software licence
QuoteCatalog ==
  FilterCatalog \o
  << Product("mon1", "Monitor", 4490, 10, Some(3800), [tdp |-> Undefined]),
     Product("sw1", "Software", 2500, 20, Some(1700), [tdp |-> Undefined]) >>

\* the part of the inventory with an id
Part(id) == CHOOSE p \in Range(QuoteCatalog) : p.id = id

\* builds: parts with and without a cost in four base slots, and add-on lists
\* with quantities of one to three
QuoteBuilds ==
  { [base |-> [EmptyBase EXCEPT !["CPU"] = cpu, !["Motherboard"] = mb,
                                !["RAM"] = ram, !["PSU"] = psu],
     addons |-> addons] :
      cpu \in {NoPart, Part("cpu1"), Part("cpu3")},
      mb \in {NoPart, Part("mb3")},
      ram \in {NoPart, Part("ram2")},
      psu \in {NoPart, Part("psu2"), Part("psu3")},
      addons \in { <<>>,
                   <<AddonEntry(Part("mon1"), 1)>>,
                   <<AddonEntry(Part("sw1"), 3)>>,
                   <<AddonEntry(Part("mon1"), 2), AddonEntry(Part("ssd4"), 1)>> } }

\* pricing configurations: the number inputs take any number, a negative one
\* and a percentage above 100 included
Pricings ==
  [discountType : {"none", "percent", "fixed"},
   discountValue : {-100, 0, 10, 150, 10000},
   vatEnabled : BOOLEAN,
   vatPercent : {0, 7},
   showCost : {TRUE}]

\* the pricing and the required list of a first start
DefaultPricing ==
  [discountType |-> "none", discountValue |-> 0, vatEnabled |-> TRUE,
   vatPercent |-> 7, showCost |-> TRUE]
DefaultRequired == <<"CPU", "Motherboard", "PSU">>

\* required lists, in the order in which the categories were switched on
RequiredLists ==
  { <<>>, <<"CPU", "Motherboard", "PSU">>, <<"PSU", "CPU">>, <<"Cooler", "Motherboard", "RAM">> }

InitQuote ==
  /\ inventory = QuoteCatalog
  /\ build \in QuoteBuilds
  /\ filters = NoFilters
  /\ smartSync = TRUE
  /\ call = NoCall

\* <Summary build={build} pricing={pricing} required={required} />
RenderSummary ==
  /\ call.op = "none"
  /\ \E pricing \in Pricings : \E required \in RequiredLists :
       call' = [op |-> "Summary", n |-> 1, arg |-> <<build, pricing, required>>,
                ret |-> Summary(build, pricing, required)]
  /\ UNCHANGED <<inventory, build, filters, smartSync>>

NextQuote == RenderSummary

SpecQuote == InitQuote /\ [][NextQuote]_vars

-----------------------------------------------------------------------------
(* Smart Sync against the checker: a base selection whose report has no     *)
(* error, the FilterSet that "sync now" derives from it, and the choice of  *)
(* an offered part for a slot that is still empty.                          *)

MaxChosen == 3

\* the selections of at most MaxChosen parts whose report has no error note
SoundSelections ==
  { b \in Selections :
      /\ Cardinality({c \in Range(BASE_CATEGORIES) : Present(b[c])}) <= MaxChosen
      /\ checkCompatibility(b).level # "error" }

InitSound ==
  /\ inventory = Catalog
  /\ build \in {[base |-> b, addons |-> <<>>] : b \in SoundSelections}
  /\ filters = deriveFiltersFromSelection(build.base, NoFilters)
  /\ smartSync = TRUE
  /\ call = NoCall

\* the picker's Select on an empty slot: onSelect(cat, item) with an item of
\* byCat[cat], then the Smart Sync effect and comp = checkCompatibility(selection)
ChooseOffered ==
  /\ call.op = "none"
  /\ \E cat \in Range(BASE_CATEGORIES) : \E item \in Range(byCat(cat)) :
       LET base == [build.base EXCEPT ![cat] = item]
       IN  /\ ~Present(build.base[cat])
           /\ build' = [build EXCEPT !.base = base]
           /\ filters' = SmartSyncEffect(smartSync, base, filters)
           /\ call' = [op |-> "ChooseOffered", n |-> 1, arg |-> <<build.base, cat, item>>,
                        ret |-> checkCompatibility(base)]
  /\ UNCHANGED <<inventory, smartSync>>

NextSound == ChooseOffered

SpecSound == InitSound /\ [][NextSound]_vars

-----------------------------------------------------------------------------
(* Properties of the build state (specification Spec) *)

\* C1 (as claimed): in every reachable state the add-on list holds at most one
\* entry per distinct product id.
C1_OneEntryPerProduct ==
  \A i, j \in 1..Len(build.addons) :
    i # j => build.addons[i].product.id # build.addons[j].product.id

-----------------------------------------------------------------------------
(* Properties of checkCompatibility (specification SpecCheck) *)

Checked == call.op = "checkCompatibility"

\* the positions of the notes whose message is one of texts
NotesOf(notes, texts) == {i \in 1..Len(notes) : notes[i].msg.text \in texts}

SocketTexts == {"socket-match", "socket-mismatch"}
RamTexts == {"ram-match", "ram-mismatch"}
PcieTexts == {"pcie-present", "pcie-missing"}
CaseTexts == {"case-match", "case-mismatch"}
CoolerTexts == {"cooler-match", "cooler-mismatch"}
StorageTexts == {"storage-match", "storage-mismatch"}
PsuTexts == {"psu-low", "psu-enough"}

LevelRank(l) == CASE l = "ok" -> 0 [] l = "warn" -> 1 [] l = "error" -> 2

\* C2: with a CPU and a Motherboard chosen the report has exactly one socket
\* note; it is not an error when the sockets are equal, and when they differ
\* it is an error whose message names both socket values.
C2_SocketNote ==
  Checked /\ Present(call.arg["CPU"]) /\ Present(call.arg["Motherboard"]) =>
    LET notes == call.ret.notes
        cs == call.arg["CPU"].attributes.socket
        ms == call.arg["Motherboard"].attributes.socket
        sn == NotesOf(notes, SocketTexts)
    IN  /\ Cardinality(sn) = 1
        /\ \A i \in sn :
             IF cs = ms THEN notes[i].level # "error"
             ELSE notes[i].level = "error" /\ notes[i].msg.vals = <<cs, ms>>

C2_Witness ==
  /\ Checked
  /\ call.arg["CPU"].attributes.socket = Some("AM5")
  /\ call.arg["Motherboard"].attributes.socket = Some("LGA1700")
  /\ \E i \in 1..Len(call.ret.notes) :
       /\ call.ret.notes[i].level = "error"
       /\ call.ret.notes[i].msg = [text |-> "socket-mismatch",
                                   vals |-> <<Some("AM5"), Some("LGA1700")>>]

\* the six rules over a pair of parts add a note only if both parts are chosen
PairRulesNeedBothParts ==
  LET notes == call.ret.notes
      has(c) == Present(call.arg[c])
  IN  /\ NotesOf(notes, SocketTexts) # {} => has("CPU") /\ has("Motherboard")
      /\ NotesOf(notes, RamTexts) # {} => has("RAM") /\ has("Motherboard")
      /\ NotesOf(notes, PcieTexts) # {} => has("GPU") /\ has("Motherboard")
      /\ NotesOf(notes, CaseTexts) # {} => has("Case") /\ has("Motherboard")
      /\ NotesOf(notes, CoolerTexts) # {} => has("Cooler") /\ has("CPU")
      /\ NotesOf(notes, StorageTexts) # {} => has("Storage") /\ has("Motherboard")

\* C3 (as claimed): each of the seven rules adds a note only if both parts of
\* its pair are chosen; the PSU rule's pair is the PSU and the CPU+GPU load, so
\* a PSU note needs a PSU and a CPU or GPU.
C3_EveryRuleNeedsItsPair ==
  Checked =>
    /\ PairRulesNeedBothParts
    /\ NotesOf(call.ret.notes, PsuTexts) # {} =>
         /\ Present(call.arg["PSU"])
         /\ Present(call.arg["CPU"]) \/ Present(call.arg["GPU"])

\* C3 (amended): the six pair rules add a note only if both parts of the pair
\* are chosen; the PSU rule adds a note only if a PSU is chosen, and then it
\* adds one whether or not a CPU or a GPU is chosen.
C3_RulesNeedTheirParts ==
  Checked =>
    /\ PairRulesNeedBothParts
    /\ NotesOf(call.ret.notes, PsuTexts) # {} <=> Present(call.arg["PSU"])

C3_Witness ==
  /\ Checked
  /\ Present(call.arg["PSU"]) /\ ~Present(call.arg["CPU"]) /\ ~Present(call.arg["GPU"])
  /\ Present(call.arg["Cooler"]) /\ Present(call.arg["RAM"])
  /\ ~Present(call.arg["Motherboard"])
  /\ Len(call.ret.notes) = 1
  /\ call.ret.notes[1].msg.text \in PsuTexts

\* C4: when the report has a note, its level is the most severe level among
\* the notes (error > warn > ok).
C4_LevelIsMostSevere ==
  Checked /\ Len(call.ret.notes) >= 1 =>
    LET notes == call.ret.notes IN
    /\ \E i \in 1..Len(notes) : notes[i].level = call.ret.level
    /\ \A i \in 1..Len(notes) : LevelRank(notes[i].level) <= LevelRank(call.ret.level)

C4_Witness ==
  /\ Checked
  /\ call.ret.level = "error"
  /\ \E i \in 1..Len(call.ret.notes) : call.ret.notes[i].level = "warn"
  /\ \E i \in 1..Len(call.ret.notes) : call.ret.notes[i].level = "ok"

\* no rule of the checker is evaluable on the selection
NoRuleEvaluable(parts) ==
  LET has(c) == Present(parts[c])
  IN  /\ ~(has("CPU") /\ has("Motherboard"))
      /\ ~(has("RAM") /\ has("Motherboard"))
      /\ ~(has("GPU") /\ has("Motherboard"))
      /\ ~(has("Case") /\ has("Motherboard"))
      /\ ~(has("Cooler") /\ has("CPU"))
      /\ ~(has("Storage") /\ has("Motherboard")
           /\ TruthyStr(parts["Storage"].attributes.interface)
           /\ TruthyArr(parts["Motherboard"].attributes.storage))
      /\ ~has("PSU")

C6_PsuRuleWarns ==
  Checked =>
    LET notes == call.ret.notes
        pn == NotesOf(notes, PsuTexts)
        psu == call.arg["PSU"]
        cpuTdp == call.arg["CPU"].attributes.tdp
        gpuTdp == call.arg["GPU"].attributes.tdp
        need == OrZero(cpuTdp) + OrZero(gpuTdp) + 100
        has == OrZero(psu.attributes.wattage)
    IN  /\ \A i \in pn : notes[i].level # "error"
        /\ Present(psu) =>
             /\ Cardinality(pn) = 1
             /\ \A i \in pn : notes[i].level = IF has < need THEN "warn" ELSE "ok"
             /\ has < need /\ (\A i \in 1..Len(notes) : notes[i].level # "error")
                  => call.ret.level = "warn"
        /\ Present(psu) /\ cpuTdp = Some(148) /\ gpuTdp = Some(220)
           /\ psu.attributes.wattage = Some(300) =>
             \A i \in pn : notes[i] = Note("warn", "psu-low", <<300, 468>>)

C6_Witness ==
  /\ Checked
  /\ call.arg["CPU"].attributes.tdp = Some(148)
  /\ call.arg["GPU"].attributes.tdp = Some(220)
  /\ call.arg["PSU"].attributes.wattage = Some(300)
  /\ call.ret.level = "warn"
  /\ \E i \in 1..Len(call.ret.notes) :
       call.ret.notes[i] = Note("warn", "psu-low", <<300, 468>>)

\* the rules in the order of the source, each by the texts of its notes
RuleTexts ==
  <<SocketTexts, RamTexts, PcieTexts, CaseTexts, CoolerTexts, StorageTexts, PsuTexts>>

\* the rule that a note belongs to
RuleOf(note) == CHOOSE k \in 1..Len(RuleTexts) : note.msg.text \in RuleTexts[k]

\* the parts (for the storage rule, also the attributes) of rule k are present
RuleApplies(k, parts) ==
  LET has(c) == parts[c] # NoPart
  IN  CASE k = 1 -> has("CPU") /\ has("Motherboard")
        [] k = 2 -> has("RAM") /\ has("Motherboard")
        [] k = 3 -> has("GPU") /\ has("Motherboard")
        [] k = 4 -> has("Case") /\ has("Motherboard")
        [] k = 5 -> has("Cooler") /\ has("CPU")
        [] k = 6 -> /\ has("Storage") /\ has("Motherboard")
                    /\ parts["Storage"].attributes.interface # Undefined
                    /\ parts["Motherboard"].attributes.storage # Undefined
        [] k = 7 -> has("PSU")

\* C24: for every base selection, each rule whose parts (for the storage rule,
\* whose attributes too) are present contributes exactly one note, whatever
\* the other rules report, and no rule contributes more than one; the report
\* has at most 7 notes, in the order socket, RAM type, PCIe, case form
\* factor, cooler socket, storage interface, PSU.
C24_RulesIndependent ==
  Checked =>
    LET notes == call.ret.notes IN
    /\ \A k \in 1..Len(RuleTexts) :
         /\ RuleApplies(k, call.arg) => Cardinality(NotesOf(notes, RuleTexts[k])) = 1
         /\ Cardinality(NotesOf(notes, RuleTexts[k])) <= 1
    /\ Len(notes) <= 7
    /\ \A i, j \in 1..Len(notes) : i < j => RuleOf(notes[i]) < RuleOf(notes[j])

\* all eight parts chosen, the CPU and the board of different sockets: the
\* socket error comes first and the six other rules still report
C24_Witness ==
  /\ Checked
  /\ Len(call.ret.notes) = 7
  /\ call.ret.notes[1].msg.text = "socket-mismatch"
  /\ call.ret.notes[2].msg.text = "ram-match"
  /\ call.ret.notes[6].msg.text = "storage-match"
  /\ call.ret.notes[7].msg.text = "psu-low"

\* C25: with Storage and Motherboard both chosen, the report has a note of the
\* storage-interface rule exactly when storage.interface and mb.storage are
\* both present; the note is ok when storage.interface is a member of
\* mb.storage and error otherwise; when either attribute is missing there is
\* no note of the rule.
C25_StorageRule ==
  (Checked /\ call.arg["Storage"] # NoPart /\ call.arg["Motherboard"] # NoPart) =>
    LET interface == call.arg["Storage"].attributes.interface
        storage == call.arg["Motherboard"].attributes.storage
        found == NotesOf(call.ret.notes, StorageTexts)
    IN  IF interface # Undefined /\ storage # Undefined
        THEN /\ Cardinality(found) = 1
             /\ \A i \in found :
                  call.ret.notes[i].level =
                    IF interface[1] \in Range(storage[1]) THEN "ok" ELSE "error"
        ELSE found = {}

\* an NVMe drive on a board whose storage list is present and empty: an error
C25_Witness ==
  /\ Checked
  /\ call.arg["Storage"].attributes.interface = Some("M.2 NVMe")
  /\ call.arg["Motherboard"].attributes.storage = Some(<<>>)
  /\ \E i \in NotesOf(call.ret.notes, StorageTexts) : call.ret.notes[i].level = "error"

-----------------------------------------------------------------------------
(* Properties of deriveFiltersFromSelection (specification SpecDerive) *)

Derived == call.op = "deriveFiltersFromSelection"

\* the chosen parts imply a value for the field k of the FilterSet
Implied(base, k) ==
  LET cpuSocket == TruthyStr(base["CPU"].attributes.socket)
      mbAttr == base["Motherboard"].attributes
  IN  CASE k = "socket" -> cpuSocket \/ TruthyStr(mbAttr.socket)
        [] k = "ramType" -> TruthyStr(mbAttr.ramType)
        [] k = "formFactor" -> TruthyStr(mbAttr.formFactor)
        [] k = "storageInterface" ->
             \/ TruthyStr(base["Storage"].attributes.interface)
             \/ (mbAttr.storage # Undefined /\ mbAttr.storage # Some(<<>>))
        [] k = "minPSUWatt" -> Present(base["PSU"])
        [] k = "coolerSocket" -> cpuSocket

\* C7: every field that no chosen part implies has in the result the value it
\* had in the previous FilterSet; with an empty base the result is the
\* previous FilterSet.
C7_MergeSemantics ==
  Derived =>
    LET base == call.arg[1]  current == call.arg[2]
    IN  /\ \A k \in DOMAIN NoFilters : ~Implied(base, k) => call.ret[k] = current[k]
        /\ base = EmptyBase => call.ret = current
        /\ filters = call.ret

C7_Witness ==
  /\ Derived
  /\ call.arg[1]["CPU"].attributes.socket = Some("LGA1700")
  /\ ~Present(call.arg[1]["Motherboard"])
  /\ call.arg[2].socket = Some("AM4") /\ call.ret.socket = Some("LGA1700")
  /\ call.arg[2].ramType = Some("DDR3") /\ call.ret.ramType = Some("DDR3")
  /\ call.arg[2].minPSUWatt = Some(650) /\ call.ret.minPSUWatt = Some(650)

\* C8: deriving again from the result of a derivation, with the same base,
\* gives that result: derive(base, derive(base, f)) = derive(base, f).
C8_Idempotent ==
  Derived /\ call.n = 2 =>
    /\ call.arg[1] = build.base
    /\ call.ret = call.arg[2]

C8_Witness ==
  /\ Derived /\ call.n = 2
  /\ Present(build.base["CPU"]) /\ Present(build.base["Motherboard"])
  /\ Present(build.base["PSU"]) /\ Present(build.base["Storage"])
  /\ call.ret.socket = Some("AM5")
  /\ call.ret.formFactor = Some("EATX")
  /\ call.ret = call.arg[2]

\* C9: a chosen CPU with a socket sets socket and coolerSocket to its socket,
\* also when the Motherboard's socket differs; the Motherboard's socket is used
\* for socket only when no chosen CPU has a socket, and coolerSocket is never
\* taken from the Motherboard.
C9_CpuSocketFirst ==
  Derived =>
    LET base == call.arg[1]  current == call.arg[2]
        cs == base["CPU"].attributes.socket
        ms == base["Motherboard"].attributes.socket
    IN  /\ TruthyStr(cs) => call.ret.socket = cs /\ call.ret.coolerSocket = cs
        /\ ~TruthyStr(cs) /\ TruthyStr(ms) => call.ret.socket = ms
        /\ ~TruthyStr(cs) => call.ret.coolerSocket = current.coolerSocket

C9_Witness ==
  /\ Derived
  /\ call.arg[1]["CPU"].attributes.socket = Some("AM5")
  /\ call.arg[1]["Motherboard"].attributes.socket = Some("LGA1700")
  /\ call.ret.socket = Some("AM5") /\ call.ret.coolerSocket = Some("AM5")
  /\ checkCompatibility(call.arg[1]).level = "error"

\* C10: with a PSU chosen, whatever its wattage, minPSUWatt becomes
\* max((cpu.tdp or 0) + (gpu.tdp or 0) + 100, 0); with no PSU chosen it keeps
\* its previous value.
C10_MinPSUWatt ==
  Derived =>
    LET base == call.arg[1]  current == call.arg[2]
        need == OrZero(base["CPU"].attributes.tdp) + OrZero(base["GPU"].attributes.tdp) + 100
    IN  IF Present(base["PSU"])
        THEN call.ret.minPSUWatt = Some(IF need > 0 THEN need ELSE 0)
        ELSE call.ret.minPSUWatt = current.minPSUWatt

C10_Witness ==
  /\ Derived /\ call.n = 1
  /\ call.arg[1]["PSU"].attributes.wattage = Undefined
  /\ Present(call.arg[1]["PSU"])
  /\ call.arg[1]["CPU"].attributes.tdp = Some(148)
  /\ call.arg[1]["GPU"].attributes.tdp = Some(220)
  /\ call.arg[2].minPSUWatt = Some(650)
  /\ call.ret.minPSUWatt = Some(468)

-----------------------------------------------------------------------------
(* Properties of Smart Sync in the application (specification Spec) *)

\* C11: every step that changes the base selection (select, deselect, search
\* insert, reset) leaves the FilterSet equal to
\* deriveFiltersFromSelection(new base selection, FilterSet before the step)
\* when Smart Sync is on, and leaves the FilterSet unchanged when it is off.
C11_SyncOnBaseChange ==
  [][build'.base # build.base =>
       /\ smartSync' = smartSync
       /\ filters' = IF smartSync
                     THEN deriveFiltersFromSelection(build'.base, filters)
                     ELSE filters]_vars

\* Smart Sync is on, the CPU was deselected and a motherboard chosen: the
\* cooler socket of the deselected CPU is kept, the socket is the board's
C11_Witness ==
  /\ smartSync
  /\ build.base["CPU"] = NoPart
  /\ build.base["Motherboard"].id = "mb5"
  /\ filters.socket = Some("LGA1700")
  /\ filters.ramType = Some("DDR5")
  /\ filters.coolerSocket = Some("AM5")

-----------------------------------------------------------------------------
(* Properties of applyAttrFilters (specification SpecFilter) *)

Filtered == call.op = "applyAttrFilters"

\* whether a value is an element of an optional array attribute
ListedIn(v, arr) == arr # Undefined /\ v \in Range(arr[1])

\* a candidate satisfies every constraint of f that is relevant to category cat
Satisfies(cat, p, f) ==
  LET a == p.attributes IN
  /\ (TruthyStr(f.socket) /\ cat \in {"CPU", "Motherboard"}) => a.socket = f.socket
  /\ (TruthyStr(f.ramType) /\ cat = "Motherboard") => a.ramType = f.ramType
  /\ (TruthyStr(f.formFactor) /\ cat = "Motherboard") => a.formFactor = f.formFactor
  /\ (TruthyStr(f.storageInterface) /\ cat = "Motherboard")
       => ListedIn(f.storageInterface[1], a.storage)
  /\ (TruthyStr(f.formFactor) /\ cat = "Case")
       => ListedIn(f.formFactor[1], a.formFactorSupport)
  /\ (TruthyStr(f.storageInterface) /\ cat = "Storage") => a.interface = f.storageInterface
  /\ (f.minPSUWatt # Undefined /\ cat = "PSU")
       => (IF a.wattage = Undefined THEN 0 ELSE a.wattage[1]) >= f.minPSUWatt[1]
  /\ (TruthyStr(f.coolerSocket) /\ cat = "Cooler")
       => ListedIn(f.coolerSocket[1], a.socketSupport)

FromDdr5Board(f) ==
  \E mb \in Range(inventory) :
    /\ mb.category = "Motherboard"
    /\ mb.attributes.ramType = Some("DDR5")
    /\ f = deriveFiltersFromSelection([EmptyBase EXCEPT !["Motherboard"] = mb], NoFilters)

\* C13 (as claimed): filtering a RAM candidate list with a FilterSet derived
\* from a chosen motherboard whose ramType is DDR5 keeps every candidate whose
\* type is DDR5 and excludes every other one, a module without a type included.
C13_RamFilteredByType ==
  (Filtered /\ call.arg[1] = "RAM" /\ FromDdr5Board(call.arg[3])) =>
    \A p \in Range(call.arg[2]) :
      p \in Range(call.ret) <=> p.attributes.type = Some("DDR5")

\* the relevance mapping: the field of the FilterSet, the category it
\* restricts, and the attribute of the candidate that it is compared with
Relevance ==
  { [field |-> "socket", cat |-> "CPU", attr |-> "socket"],
    [field |-> "socket", cat |-> "Motherboard", attr |-> "socket"],
    [field |-> "ramType", cat |-> "Motherboard", attr |-> "ramType"],
    [field |-> "formFactor", cat |-> "Motherboard", attr |-> "formFactor"],
    [field |-> "formFactor", cat |-> "Case", attr |-> "formFactorSupport"],
    [field |-> "storageInterface", cat |-> "Storage", attr |-> "interface"],
    [field |-> "storageInterface", cat |-> "Motherboard", attr |-> "storage"],
    [field |-> "minPSUWatt", cat |-> "PSU", attr |-> "wattage"],
    [field |-> "coolerSocket", cat |-> "Cooler", attr |-> "socketSupport"] }

\* no candidate is excluded when every field relevant to the category is absent
AbsentFieldsExcludeNothing ==
  Filtered =>
    ((\A r \in Relevance : r.cat = call.arg[1] => call.arg[3][r.field] = Undefined)
       => call.ret = call.arg[2])

\* C15 (as claimed): for every field present in the FilterSet (minPSUWatt with
\* any non-negative value, 0 included), a candidate of a category that the
\* field restricts and that lacks the attribute compared is excluded; when
\* the fields relevant to the category are absent, no candidate is excluded.
C15_MissingAttributeExcluded ==
  /\ Filtered =>
       \A r \in Relevance :
         (call.arg[3][r.field] # Undefined /\ r.cat = call.arg[1]) =>
           \A p \in Range(call.arg[2]) :
             p.attributes[r.attr] = Undefined => p \notin Range(call.ret)
  /\ AbsentFieldsExcludeNothing

\* C15 (amended): for every string field present in the FilterSet, and for
\* minPSUWatt with a value above 0, a candidate of a category that the field
\* restricts and that lacks the attribute compared is excluded; under
\* minPSUWatt = 0 every PSU candidate is kept, one without a wattage too (a
\* missing wattage counts as 0 W); when the fields relevant to the category
\* are absent, no candidate is excluded.
C15_MissingAttributeExcludedAboveZero ==
  /\ Filtered =>
       \A r \in Relevance :
         (call.arg[3][r.field] # Undefined /\ r.cat = call.arg[1]) =>
           IF r.field = "minPSUWatt" /\ call.arg[3].minPSUWatt = Some(0)
           THEN call.ret = call.arg[2]
           ELSE \A p \in Range(call.arg[2]) :
                  p.attributes[r.attr] = Undefined => p \notin Range(call.ret)
  /\ AbsentFieldsExcludeNothing

\* the three PSUs under minPSUWatt 468: the one without a wattage is excluded
C15_Witness ==
  /\ Filtered
  /\ call.arg[1] = "PSU"
  /\ call.arg[3].minPSUWatt = Some(468)
  /\ [i \in 1..Len(call.arg[2]) |-> call.arg[2][i].id] = <<"psu1", "psu2", "psu3">>
  /\ [i \in 1..Len(call.ret) |-> call.ret[i].id] = <<"psu1">>

-----------------------------------------------------------------------------
(* Properties of the candidate lists offered (specification SpecFilter) *)

Rendered == call.op = "RenderPickers"

\* the parts of a category that are in stock
StockOf(cat) == {p \in Range(inventory) : p.category = cat /\ p.stock > 0}

\* C14 (as claimed): under a FilterSet with storageInterface set, the Storage
\* candidates and the SSD add-on candidates offered all have that interface,
\* and the Motherboard candidates offered all list it in attributes.storage.
C14_StorageSsdBoardRestricted ==
  (Rendered /\ TruthyStr(call.arg.storageInterface)) =>
    /\ \A p \in Range(call.ret["Storage"]) : p.attributes.interface = call.arg.storageInterface
    /\ \A p \in Range(call.ret["SSD"]) : p.attributes.interface = call.arg.storageInterface
    /\ \A p \in Range(call.ret["Motherboard"]) :
         ListedIn(call.arg.storageInterface[1], p.attributes.storage)

\* C14 (amended): under a FilterSet with storageInterface set, the Storage
\* candidates offered are exactly the Storage parts in stock that have that
\* interface, the Motherboard candidates offered are exactly the boards in
\* stock that list it in attributes.storage and pass the other constraints on
\* boards, and the SSD add-on candidates offered are all SSD parts in stock,
\* whatever their interface.
C14_StorageBoardRestricted ==
  (Rendered /\ TruthyStr(call.arg.storageInterface)) =>
    /\ Range(call.ret["Storage"]) =
         {p \in StockOf("Storage") : p.attributes.interface = call.arg.storageInterface}
    /\ \A p \in Range(call.ret["Motherboard"]) :
         ListedIn(call.arg.storageInterface[1], p.attributes.storage)
    /\ Range(call.ret["Motherboard"]) =
         {p \in StockOf("Motherboard") : Satisfies("Motherboard", p, call.arg)}
    /\ Range(call.ret["SSD"]) = StockOf("SSD")

\* storageInterface M.2 NVMe alone: one drive and two boards are offered, and
\* the SATA SSD is still among the add-on candidates
C14_Witness ==
  /\ Rendered
  /\ call.arg = [NoFilters EXCEPT !.storageInterface = Some("M.2 NVMe")]
  /\ {p.id : p \in Range(call.ret["Storage"])} = {"sto1"}
  /\ {p.id : p \in Range(call.ret["Motherboard"])} = {"mb1", "mb2"}
  /\ {p.id : p \in Range(call.ret["SSD"])} = {"ssd2", "ssd3", "ssd4"}

-----------------------------------------------------------------------------
(* Properties of the quote (specification SpecQuote).  Amounts are compared  *)
(* in the units of Summary: x baht is 100 * x hundredths of a baht.          *)

Quoted == call.op = "Summary"

\* C16: discountAmount is 0 for none, min(subtotal, subtotal * discountValue /
\* 100) for percent and min(subtotal, discountValue) for fixed; it never
\* exceeds subtotal, and netBeforeTax = max(0, subtotal - discountAmount) is
\* never negative; subtotal 500 with fixed 10000 gives discountAmount 500 and
\* netBeforeTax 0.
C16_DiscountCapped ==
  Quoted =>
    LET pricing == call.arg[2]
        q == call.ret
        sub == 100 * q.subtotal
        percent == q.subtotal * pricing.discountValue
        fixed == 100 * pricing.discountValue
    IN  /\ pricing.discountType = "none" => q.discount = 0
        /\ pricing.discountType = "percent" =>
             q.discount = IF sub <= percent THEN sub ELSE percent
        /\ pricing.discountType = "fixed" =>
             q.discount = IF sub <= fixed THEN sub ELSE fixed
        /\ q.discount <= sub
        /\ q.netBeforeVAT = IF sub - q.discount >= 0 THEN sub - q.discount ELSE 0
        /\ q.netBeforeVAT >= 0
        /\ (q.subtotal = 500 /\ pricing.discountType = "fixed"
              /\ pricing.discountValue = 10000)
             => (q.discount = 100 * 500 /\ q.netBeforeVAT = 0)

\* subtotal 500 with a fixed discount of 10000
C16_Witness ==
  /\ Quoted
  /\ call.ret.subtotal = 500
  /\ call.arg[2].discountType = "fixed"
  /\ call.arg[2].discountValue = 10000
  /\ call.ret.discount = 100 * 500
  /\ call.ret.netBeforeVAT = 0

\* C28 (as claimed): for every pricing configuration, a negative discountValue
\* included, discountAmount is never negative, so netBeforeTax never exceeds
\* subtotal.
C28_DiscountNeverNegative ==
  Quoted => (call.ret.discount >= 0 /\ call.ret.netBeforeVAT <= 100 * call.ret.subtotal)

\* the sum of f over the set S
RECURSIVE SumOf(_, _)
SumOf(f, S) ==
  IF S = {} THEN 0
  ELSE LET x == CHOOSE y \in S : TRUE
       IN  f[x] + SumOf(f, S \ {x})

ChosenSlots(base) == {c \in Range(BASE_CATEGORIES) : base[c] # NoPart}

\* C17: subtotal is the sum of the prices of the chosen base parts plus the
\* sum over the add-ons of price * qty; taxAmount is netBeforeTax * vatPercent
\* / 100 when VAT is enabled and 0 otherwise; total is netBeforeTax +
\* taxAmount; subtotal 10000 with a 10 percent discount and VAT at 7 percent
\* gives discountAmount 1000, netBeforeTax 9000, taxAmount 630 and total 9630.
C17_QuoteArithmetic ==
  Quoted =>
    LET b == call.arg[1]
        pricing == call.arg[2]
        q == call.ret
    IN  /\ q.subtotal =
             SumOf([c \in Range(BASE_CATEGORIES) |-> b.base[c].price], ChosenSlots(b.base))
             + SumOf([i \in 1..Len(b.addons) |-> b.addons[i].product.price * b.addons[i].qty],
                     1..Len(b.addons))
        /\ q.vat = IF pricing.vatEnabled THEN q.netBeforeVAT * pricing.vatPercent ELSE 0
        /\ q.total = 100 * q.netBeforeVAT + q.vat
        /\ (q.subtotal = 10000 /\ pricing.discountType = "percent"
              /\ pricing.discountValue = 10 /\ pricing.vatEnabled /\ pricing.vatPercent = 7)
             => /\ q.discount = 100 * 1000
                /\ q.netBeforeVAT = 100 * 9000
                /\ q.vat = 10000 * 630
                /\ q.total = 10000 * 9630

\* a board, a memory module and three licences (subtotal 10000), 10 percent
\* off, VAT at 7 percent
C17_Witness ==
  /\ Quoted
  /\ call.arg[1].base["Motherboard"].price = 2000
  /\ Len(call.arg[1].addons) = 1
  /\ call.ret.subtotal = 10000
  /\ call.arg[2] = [discountType |-> "percent", discountValue |-> 10,
                    vatEnabled |-> TRUE, vatPercent |-> 7, showCost |-> TRUE]
  /\ call.ret.vat = 10000 * 630
  /\ call.ret.total = 10000 * 9630

\* the cost of a product, a missing cost counted as 0
CostOrZero(p) == IF p.cost = Undefined THEN 0 ELSE p.cost[1]

\* C18: costTotal is the sum of the costs of the chosen base parts plus cost *
\* qty over the add-ons, a missing cost counted as 0; profit is netBeforeTax -
\* costTotal, whatever the tax; marginPercent is profit / netBeforeTax * 100
\* when netBeforeTax > 0 and 0 when it is 0, and is never a division by zero.
C18_MarginExcludesTax ==
  Quoted =>
    LET b == call.arg[1]
        q == call.ret
    IN  /\ q.costTotal =
             SumOf([c \in Range(BASE_CATEGORIES) |-> CostOrZero(b.base[c])], ChosenSlots(b.base))
             + SumOf([i \in 1..Len(b.addons) |-> CostOrZero(b.addons[i].product) * b.addons[i].qty],
                     1..Len(b.addons))
        /\ q.profit = q.netBeforeVAT - 100 * q.costTotal
        /\ q.margin.den # 0
        /\ q.netBeforeVAT > 0 => (q.margin.num = 100 * q.profit /\ q.margin.den = q.netBeforeVAT)
        /\ q.netBeforeVAT = 0 => q.margin.num = 0

\* a CPU with a cost and a PSU without one, two monitors and an SSD without a
\* cost, no discount, VAT on: cost 6100 + 2 * 3800, profit 17570 - 13700
C18_Witness ==
  /\ Quoted
  /\ call.arg[1].base["CPU"].id = "cpu1"
  /\ call.arg[1].base["PSU"].id = "psu3"
  /\ Len(call.arg[1].addons) = 2
  /\ call.arg[2].discountType = "none"
  /\ call.arg[2].vatEnabled /\ call.arg[2].vatPercent = 7
  /\ call.ret.subtotal = 17570
  /\ call.ret.costTotal = 13700
  /\ call.ret.profit = 100 * 3870
  /\ call.ret.margin = [num |-> 10000 * 3870, den |-> 100 * 17570]

\* the position of an element in a list without duplicates
PositionIn(s, x) == CHOOSE i \in 1..Len(s) : s[i] = x

\* C19: missingRequired holds exactly the required categories that have no
\* chosen part in base, each once, in the order of the required list; with
\* required = [CPU, Motherboard, PSU] and only CPU and PSU chosen it is
\* [Motherboard]; it is empty exactly when every required category is chosen.
C19_MissingRequired ==
  Quoted =>
    LET base == call.arg[1].base
        required == call.arg[3]
        missing == call.ret.missingRequired
    IN  /\ Range(missing) = {c \in Range(required) : base[c] = NoPart}
        /\ \A i, j \in 1..Len(missing) :
             i < j => PositionIn(required, missing[i]) < PositionIn(required, missing[j])
        /\ (required = <<"CPU", "Motherboard", "PSU">> /\ ChosenSlots(base) = {"CPU", "PSU"})
             => missing = <<"Motherboard">>
        /\ missing = <<>> <=> \A c \in Range(required) : base[c] # NoPart

\* required = [CPU, Motherboard, PSU], only a CPU and a PSU chosen
C19_Witness ==
  /\ Quoted
  /\ call.arg[3] = <<"CPU", "Motherboard", "PSU">>
  /\ ChosenSlots(call.arg[1].base) = {"CPU", "PSU"}
  /\ call.ret.missingRequired = <<"Motherboard">>

-----------------------------------------------------------------------------
(* Properties of the base selection (specification Spec) *)

\* C20: in every state reachable from the empty build by select, deselect,
\* search insert, add-on and reset actions, the base selection has one slot
\* per base category, each empty or holding one part, and a part held in slot
\* c has category c.
C20_SlotHoldsItsCategory ==
  /\ DOMAIN build.base = Range(BASE_CATEGORIES)
  /\ \A c \in Range(BASE_CATEGORIES) :
       build.base[c] = NoPart
       \/ (build.base[c] \in Range(inventory) /\ build.base[c].category = c)

\* a CPU and a motherboard are chosen, each in its slot, beside an add-on
C20_Witness ==
  /\ build.base["CPU"].id = "cpu1"
  /\ build.base["Motherboard"].id = "mb5"
  /\ Len(build.addons) > 0

-----------------------------------------------------------------------------
(* Properties of the add-on list (specification Spec) *)

\* C21: in every reachable state every add-on entry has qty >= 1 (an add with
\* qty < 1 is rejected and is no step, the quantity input raises what is typed
\* to at least 1, merging adds a qty >= 1 to the entry's).
C21_QtyAtLeastOne ==
  \A i \in 1..Len(build.addons) : build.addons[i].qty >= 1

\* two entries: a merged or edited quantity of MaxQty, and a quantity of 1
C21_Witness ==
  /\ Len(build.addons) = 2
  /\ build.addons[1].qty = MaxQty
  /\ build.addons[2].qty = 1

\* C22: no step of the build (select or deselect a base part, add, re-quantify
\* or remove an add-on, reset, Smart Sync and the filter actions) changes the
\* inventory: every part and its stock are the same before and after.
C22_InventoryUnchanged ==
  [][/\ Len(inventory') = Len(inventory)
     /\ \A i \in 1..Len(inventory) :
          inventory'[i].id = inventory[i].id /\ inventory'[i].stock = inventory[i].stock]_vars

\* a CPU is chosen and three monitors are in the add-on list: the stocks are
\* those of the stored inventory
C22_Witness ==
  /\ build.base["CPU"].id = "cpu1"
  /\ \E i \in 1..Len(build.addons) :
       build.addons[i].product.id = "mon1" /\ build.addons[i].qty = 3
  /\ [i \in 1..Len(inventory) |-> inventory[i].stock] = <<8, 9, 10, 0>>

\* C29 (as claimed): every part in a base slot or in an add-on entry had
\* stock > 0 when it was selected or added (the part in the build is the
\* inventory's record of that moment, and no step changes the inventory).
C29_OnlyPartsInStock ==
  /\ \A c \in Range(BASE_CATEGORIES) :
       build.base[c] # NoPart => build.base[c].stock > 0
  /\ \A i \in 1..Len(build.addons) : build.addons[i].product.stock > 0

\* category c can be skipped: there is a SkipBase step that empties slot c and
\* leaves the other slots and the add-ons as they are
CanSkip(c) ==
  ENABLED (/\ SkipBase
           /\ build'.base = [build.base EXCEPT ![c] = NoPart]
           /\ build'.addons = build.addons)

\* while the slot of a required category is empty the category is in
\* missingRequired, whatever the required list
EmptyRequiredIsMissing ==
  \A required \in RequiredLists : \A c \in Range(required) :
    build.base[c] = NoPart => c \in Range(missingRequired(required, build.base))

\* C30: in every state every category, required or not, can be skipped or
\* deselected, by a step that empties the slot and leaves the other slots and
\* the add-ons as they are; and as long as the slot of a required category is
\* empty, the category is listed in missingRequired.
C30_RequiredGatesNothing ==
  /\ \A c \in Range(BASE_CATEGORIES) : CanSkip(c)
  /\ EmptyRequiredIsMissing

\* the CPU, required by default, was deselected beside a board and an add-on:
\* CPU and PSU are missing
C30_Witness ==
  /\ build.base["CPU"] = NoPart
  /\ build.base["Motherboard"].id = "mb5"
  /\ filters.coolerSocket = Some("AM5")
  /\ Len(build.addons) = 1
  /\ missingRequired(DefaultRequired, build.base) = <<"CPU", "PSU">>

-----------------------------------------------------------------------------
(* Properties of resetSpec (specification Spec) *)

\* C23: after every reset step the base selection has no chosen part and the
\* add-on list is empty, so that the subtotal of the summary is 0 and the
\* compatibility report has no notes.
C23_ResetEmptiesTheBuild ==
  [][resetSpec =>
       /\ ChosenSlots(build'.base) = {}
       /\ build'.addons = <<>>
       /\ Summary(build', DefaultPricing, DefaultRequired).subtotal = 0
       /\ checkCompatibility(build'.base).notes = <<>>]_vars

\* the build is empty, and the FilterSet still holds what Smart Sync derived
\* from a CPU and a motherboard that were chosen before
C23_Witness ==
  /\ build = EmptyBuild
  /\ filters.ramType = Some("DDR5")
  /\ filters.coolerSocket = Some("AM5")

\* a step removes a field of the FilterSet
RemovesField == \E k \in DOMAIN NoFilters : filters[k] # Undefined /\ filters'[k] = Undefined

\* C27 (as claimed): a reset never changes the FilterSet, with Smart Sync on or
\* off, and only the per-field clear and the "clear filters" actions remove a
\* field of the FilterSet.
C27_OnlyClearRemoves ==
  [][/\ resetSpec => filters' = filters
     /\ RemovesField => (ClearFilter \/ ClearFilters)]_vars

\* C27 (amended): a reset never changes the FilterSet, with Smart Sync on or
\* off; a field of the FilterSet is removed only by the per-field clear, by
\* "clear filters" and by "sync now", which derives from an empty FilterSet
\* and so drops every field that the current selection does not give.
C27_ResetKeepsFilters ==
  [][/\ resetSpec => filters' = filters
     /\ RemovesField => (ClearFilter \/ ClearFilters \/ SyncNow)]_vars

\* Smart Sync is off and the build is empty after a reset: the socket derived
\* from the board chosen before is still in the FilterSet
C27_Witness ==
  /\ ~smartSync
  /\ build = EmptyBuild
  /\ filters.socket = Some("LGA1700")
  /\ Len(byCat("CPU")) = 0

-----------------------------------------------------------------------------
(* Properties of Smart Sync against the checker (specification SpecSound) *)

Chosen == call.op = "ChooseOffered"

\* C26 (as claimed): for every base selection S whose report has no error
\* note, with F = deriveFiltersFromSelection(S, {}), choosing for a category
\* not chosen in S a candidate that applyAttrFilters keeps under F gives a
\* selection whose report has no error note.
C26_SmartSyncSound ==
  Chosen => \A i \in 1..Len(call.ret.notes) : call.ret.notes[i].level # "error"

\* the report of the new selection has no error note of the rule with these texts
NoErrorOf(texts) ==
  \A i \in NotesOf(call.ret.notes, texts) : call.ret.notes[i].level # "error"

\* C26 (amended): for every base selection S whose report has no error note,
\* with F = deriveFiltersFromSelection(S, {}), a candidate that
\* applyAttrFilters keeps under F for a category not chosen in S gives no
\* error note of the rule that its filter field stands for, when the part of
\* S that the field is derived from has the attribute: a CPU beside a board
\* with a socket and a board beside a CPU with a socket give no socket error;
\* a board beside a drive with an interface, and a drive beside a board whose
\* storage list is missing or not empty, give no storage error; a case beside
\* a board with a form factor gives no case error; a cooler beside a CPU with
\* a socket gives no cooler error; a PSU gives no error at all.  Beyond that
\* the new report can have error notes: RAM and GPU candidates are never
\* filtered, a board is not filtered by the chosen RAM, GPU or case, nor a CPU
\* by the chosen cooler.
C26_SmartSyncSoundForDerivedFields ==
  Chosen =>
    LET S == call.arg[1]
        cat == call.arg[2]
        mbStorage == S["Motherboard"].attributes.storage
    IN  /\ (cat = "CPU" /\ TruthyStr(S["Motherboard"].attributes.socket))
             => NoErrorOf(SocketTexts)
        /\ (cat = "Motherboard" /\ TruthyStr(S["CPU"].attributes.socket))
             => NoErrorOf(SocketTexts)
        /\ (cat = "Motherboard" /\ TruthyStr(S["Storage"].attributes.interface))
             => NoErrorOf(StorageTexts)
        /\ (cat = "Storage" /\ (mbStorage = Undefined \/ Len(mbStorage[1]) > 0))
             => NoErrorOf(StorageTexts)
        /\ (cat = "Case" /\ TruthyStr(S["Motherboard"].attributes.formFactor))
             => NoErrorOf(CaseTexts)
        /\ (cat = "Cooler" /\ TruthyStr(S["CPU"].attributes.socket))
             => NoErrorOf(CoolerTexts)
        /\ cat = "PSU" => call.ret.level # "error"

\* beside the AM5 CPU Smart Sync offers the AM5 cooler only: no error
C26_Witness ==
  /\ Chosen
  /\ call.arg[1]["CPU"].id = "cpu1"
  /\ call.arg[2] = "Cooler"
  /\ call.arg[3].id = "cool1"
  /\ \E i \in NotesOf(call.ret.notes, CoolerTexts) : call.ret.notes[i].level = "ok"
  /\ call.ret.level # "error"

====
